---- MODULE Spec2Model ----
(***************************************************************************)
(* The confessions feed backend (server.js): four SQLite tables (posts,    *)
(* reactions, replies, reports) and one express handler per endpoint.      *)
(* Every SQL statement is one atomic step on the store.  A handler that    *)
(* chains a second statement from the first one's callback takes two       *)
(* steps, and statements of other requests may run in between.  The four   *)
(* statements of the delete cascade are issued inside db.serialize and    *)
(* run one after another with nothing in between.                          *)
(***************************************************************************)
EXTENDS Integers, Sequences, FiniteSets, TLC

\* ---------------------------------------------------------------- bounds
NumClients == 2      \* slots for requests in flight together
MaxReqs    == 2      \* requests received in one behaviour
MaxPosts   == 2      \* post ids a request can name, and posts ever created
MaxTime    == 1      \* seconds the clock can advance (CURRENT_TIMESTAMP)

\* ------------------------------------------------------ program constants
MAX_LENGTH == 280

Clients == 1..NumClients
PostIds == 1..MaxPosts

validMoods   == {"none", "love", "happy", "sad", "angry", "anxious", "excited"}
validTypes   == {"love", "haha", "sad", "angry", "fire"}
validReasons == {"spam", "inappropriate", "harassment", "hate_speech",
                 "violence", "copyright", "other"}

\* ------------------------------------------------------------- JS values
\* A JSON body field: a string (its characters), a number, or absent.
Str(s)    == [t |-> "string", v |-> s]
Undefined == [t |-> "undefined", v |-> <<>>]
Number5   == [t |-> "number", v |-> <<>>]
Null      == [t |-> "null", v |-> <<>>]

WhiteSpace == {" ", "\t"}

\* String.prototype.trim: strips the whitespace at both ends, keeps the rest.
RECURSIVE TrimStart(_)
TrimStart(s) ==
    IF s # <<>> /\ Head(s) \in WhiteSpace THEN TrimStart(Tail(s)) ELSE s

RECURSIVE TrimEnd(_)
TrimEnd(s) ==
    IF s # <<>> /\ s[Len(s)] \in WhiteSpace
    THEN TrimEnd(SubSeq(s, 1, Len(s) - 1)) ELSE s

Trim(s) == TrimEnd(TrimStart(s))

\* !text : undefined, null and "" are falsy; a number 5 is truthy.
Falsy(x) == x.t \in {"undefined", "null"} \/ (x.t = "string" /\ x.v = <<>>)

\* image || null
ImageOrNull(x) == IF Falsy(x) THEN Null ELSE x

SafeMoodMutRaw(mood) == mood

\* validMoods.includes(mood) ? mood : 'none'
SafeMood(mood) == IF mood \in validMoods THEN mood ELSE "none"

\* text.trim().length > MAX_LENGTH
TooLongMutOffByOne(s) == Len(Trim(s)) > MAX_LENGTH + 1

TooLong(s) == Len(Trim(s)) > MAX_LENGTH

\* POST /api/posts and POST .../reply: !text || !text.trim().
\* A truthy non-string has no trim method: the handler throws.
CreateTextCheck(text) ==
    IF Falsy(text) THEN "empty"
    ELSE IF text.t # "string" THEN "throws"
    ELSE IF Trim(text.v) = <<>> THEN "empty"
    ELSE IF TooLong(text.v) THEN "toolong"
    ELSE "ok"

\* PUT /api/posts/:id: typeof text !== 'string' || !text.trim()
UpdateTextCheck(text) ==
    IF text.t # "string" THEN "empty"
    ELSE IF Trim(text.v) = <<>> THEN "empty"
    ELSE IF TooLong(text.v) THEN "toolong"
    ELSE "ok"

\* ------------------------------------------------------------ input sets
A(n) == [i \in 1..n |-> "a"]

TextShort  == <<" ", "a", " ", "b", "\t">>
Text280    == <<" ">> \o A(MAX_LENGTH) \o <<"\t">>
Text281    == A(MAX_LENGTH + 1)
TextBlank  == <<" ", "\t">>

PostInputs ==
    { [text |-> Str(TextShort), mood |-> "love",        image |-> Str(<<"i">>)],
      [text |-> Str(Text280),   mood |-> "bogus",       image |-> Str(<<>>)],
      [text |-> Str(TextShort), mood |-> "<undefined>", image |-> Undefined],
      [text |-> Str(Text281),   mood |-> "sad",         image |-> Undefined],
      [text |-> Str(TextBlank), mood |-> "sad",         image |-> Undefined],
      [text |-> Str(<<>>),      mood |-> "sad",         image |-> Undefined],
      [text |-> Undefined,      mood |-> "sad",         image |-> Undefined],
      [text |-> Number5,        mood |-> "sad",         image |-> Undefined] }

ReplyInputs  == { Str(<<" ", "h", "i", " ">>), Str(TextBlank), Undefined }
TypeInputs   == { "love", "fire", "wow", "<undefined>" }
ReasonInputs == { "spam", "other", "boring" }
SortInputs   == { "top", "<undefined>" }


\* ----------------------------------------------------------------- state
VARIABLES
    posts,      \* rows of table posts
    reactions,  \* rows of table reactions
    replies,    \* rows of table replies
    reports,    \* rows of table reports
    seq,        \* AUTOINCREMENT: the last id handed out, per table
    now,        \* CURRENT_TIMESTAMP, in seconds
    locked,     \* the client whose db.serialize block is running, or 0
    req,        \* per client: the request in flight and where its handler is
    out,        \* the HTTP response sent by the latest step, if any
    crashed,    \* an exception escaped a store callback: the process is gone
    failed,     \* per client: a statement of its latest request failed
    nreq        \* requests received so far

vars == << posts, reactions, replies, reports, seq, now, locked, req, out,
           crashed, failed, nreq >>

store == << posts, reactions, replies, reports, seq >>

Request(op, id, args) == [op |-> op, id |-> id, args |-> args]
NoRequest == Request("none", 0, <<>>)
\* mine, found: what the first statement of the handler did (the counter
\* value it wrote, the id of the row it inserted) and whether the post the
\* request names had a row then, kept to compare with the answer.
Idle  == [pc |-> "idle", request |-> NoRequest, rows |-> <<>>, mine |-> 0,
          found |-> FALSE]
NoOut == [client |-> 0, request |-> NoRequest, status |-> 0, body |-> <<>>]

Response(c, r, status, body) ==
    [client |-> c, request |-> r, status |-> status, body |-> body]

\* -------------------------------------------------------------- queries
Matching(table, id) == { r \in table : r.post_id = id }

DeleteWhereMutKeep(table, id) == table

\* DELETE FROM <child table> WHERE post_id = ?
DeleteWhere(table, id) == table \ Matching(table, id)

\* SELECT post_id, COUNT(*) FROM <table> GROUP BY post_id, LEFT JOINed on
\* posts.id: the count, or no value (NULL) for a post without a group.
JoinCount(table, id) ==
    IF id \in { r.post_id : r \in table }
    THEN { Cardinality(Matching(table, id)) } ELSE {}

Coalesce(x, d) == IF x = {} THEN d ELSE CHOOSE v \in x : TRUE

\* One row of the list query: posts.* with the two coalesced counts.
ListRow(p) ==
    [ id |-> p.id, text |-> p.text, mood |-> p.mood, image |-> p.image,
      likes |-> p.likes, reposts |-> p.reposts, timestamp |-> p.timestamp,
      reaction_count |-> Coalesce(JoinCount(reactions, p.id), 0),
      reply_count    |-> Coalesce(JoinCount(replies, p.id), 0) ]

OrderKeyMutNoLikes(row, sort) ==
    IF sort = "top" THEN row.reaction_count + row.reposts ELSE row.timestamp

\* req.query.sort === 'top' ? (reaction_count + reposts + likes) : timestamp
OrderKey(row, sort) ==
    IF sort = "top" THEN row.reaction_count + row.reposts + row.likes
    ELSE row.timestamp

\* ORDER BY <key> DESC.
RECURSIVE InsertDesc(_, _, _)
InsertDesc(row, sorted, sort) ==
    IF sorted = <<>> THEN << row >>
    ELSE IF OrderKey(Head(sorted), sort) >= OrderKey(row, sort)
         THEN << Head(sorted) >> \o InsertDesc(row, Tail(sorted), sort)
         ELSE << row >> \o sorted

RECURSIVE OrderByDesc(_, _)
OrderByDesc(rows, sort) ==
    IF rows = <<>> THEN <<>>
    ELSE InsertDesc(rows[Len(rows)],
                    OrderByDesc(SubSeq(rows, 1, Len(rows) - 1), sort), sort)

\* The orders in which a scan can deliver the rows of a table (rows with
\* equal keys come out of ORDER BY in an order the store chooses).
Scans(table) ==
    { s \in [1..Cardinality(table) -> table] :
        \A i, j \in DOMAIN s : i # j => s[i] # s[j] }

\* ORDER BY timestamp ASC.
RECURSIVE InsertAsc(_, _)
InsertAsc(row, sorted) ==
    IF sorted = <<>> THEN << row >>
    ELSE IF Head(sorted).timestamp <= row.timestamp
         THEN << Head(sorted) >> \o InsertAsc(row, Tail(sorted))
         ELSE << row >> \o sorted

RECURSIVE OrderByTimeAsc(_)
OrderByTimeAsc(rows) ==
    IF rows = <<>> THEN <<>>
    ELSE InsertAsc(rows[Len(rows)], OrderByTimeAsc(SubSeq(rows, 1, Len(rows) - 1)))

\* SELECT type, COUNT(*) FROM reactions WHERE post_id = ? GROUP BY type,
\* folded into an object: only the types with at least one row.
Breakdown(table, id) ==
    [ t \in { r.type : r \in Matching(table, id) } |->
        Cardinality({ r \in Matching(table, id) : r.type = t }) ]

\* getReactionsForPosts(ids, callback), then reactionsMap[row.id] || {}
ReactionsMap(table, ids) ==
    [ i \in { r.post_id : r \in { x \in table : x.post_id \in ids } } |->
        Breakdown(table, i) ]

ReactionsOf(map, id) == IF id \in DOMAIN map THEN map[id] ELSE <<>>

RECURSIVE SumCounts(_)
SumCounts(f) ==
    IF DOMAIN f = {} THEN 0
    ELSE LET t == CHOOSE x \in DOMAIN f : TRUE
         IN  f[t] + SumCounts([ u \in DOMAIN f \ {t} |-> f[u] ])

PostWith(id) == { p \in posts : p.id = id }


\* ------------------------------------------------------------------ Init
\* The server opens ./confessions.db and creates the tables only if they do
\* not exist: it starts on a fresh file, or on what earlier runs left there.
FreshStore ==
    [ posts |-> {}, reactions |-> {}, replies |-> {}, reports |-> {},
      seq |-> [posts |-> 0, reactions |-> 0, replies |-> 0, reports |-> 0],
      now |-> 0 ]

\* Left by: create(TextShort, love, image) and on it like, like, react(love);
\* a second later create(TextShort, no mood, no image) and on it repost,
\* repost; then on the first post reply(" hi ") and report(spam).
UsedStore ==
    [ posts |->
        { [ id |-> 1, text |-> Trim(TextShort), mood |-> "love",
            image |-> Str(<<"i">>), likes |-> 2, reposts |-> 0, timestamp |-> 0 ],
          [ id |-> 2, text |-> Trim(TextShort), mood |-> "none",
            image |-> Null, likes |-> 0, reposts |-> 2, timestamp |-> 1 ] },
      reactions |-> { [ id |-> 1, post_id |-> 1, type |-> "love", timestamp |-> 0 ] },
      replies   |-> { [ id |-> 1, post_id |-> 1, text |-> <<"h", "i">>, timestamp |-> 1 ] },
      reports   |-> { [ id |-> 1, post_id |-> 1, reason |-> "spam", timestamp |-> 1 ] },
      seq |-> [posts |-> 2, reactions |-> 1, replies |-> 1, reports |-> 1],
      now |-> 1 ]

Init ==
    /\ \E s \in { FreshStore, UsedStore } :
         /\ posts = s.posts /\ reactions = s.reactions
         /\ replies = s.replies /\ reports = s.reports
         /\ seq = s.seq /\ now = s.now
    /\ locked = 0
    /\ req = [c \in Clients |-> Idle]
    /\ out = NoOut
    /\ crashed = FALSE
    /\ failed = [c \in Clients |-> FALSE]
    /\ nreq = 0

\* ------------------------------------------------------- handler plumbing
\* express hands a new request to its handler.  Requests in flight are told
\* apart by the slot they occupy: a new one takes the lowest free slot.
Arrive(c) ==
    /\ ~crashed /\ nreq < MaxReqs
    /\ req[c].pc = "idle"
    /\ \A d \in Clients : d < c => req[d].pc # "idle"

\* A statement chained from a callback of the handler of c is due.
At(c, pc) == ~crashed /\ req[c].pc = pc

\* res.status(status).json(body): the handler is done.
Answer(c, r, status, body) ==
    /\ out' = Response(c, r, status, body)
    /\ req' = [req EXCEPT ![c] = Idle]

\* The handler goes on in the callback of its next statement.
Await(c, r, pc, rows, mine) ==
    /\ out' = NoOut
    /\ req' = [req EXCEPT ![c] = [pc |-> pc, request |-> r, rows |-> rows, mine |-> mine,
                                  found |-> \E p \in posts : p.id = r.id]]

\* An exception thrown inside a store callback is caught by nobody.
Crash(c, r) ==
    /\ out' = NoOut
    /\ crashed' = TRUE
    /\ req' = [req EXCEPT ![c] = [pc |-> "crashed", request |-> r, rows |-> <<>>, mine |-> 0,
                                  found |-> FALSE]]

Fail(c, err) == failed' = [failed EXCEPT ![c] = @ \/ err]

\* ------------------------------------------------------ GET /api/posts
WithReactions(row, rx) ==
    [ id |-> row.id, text |-> row.text, mood |-> row.mood, image |-> row.image,
      likes |-> row.likes, reposts |-> row.reposts, timestamp |-> row.timestamp,
      reaction_count |-> row.reaction_count, reply_count |-> row.reply_count,
      reactions |-> rx ]

\* res.json(rows.map(row => ({ ...row, reactions: reactionsMap[row.id] || {} })))
ListBody(rows, map) ==
    [ i \in DOMAIN rows |-> WithReactions(rows[i], ReactionsOf(map, rows[i].id)) ]

\* The totals join.  With no post, getReactionsForPosts calls back at once.
ListPosts(c, E) ==
    /\ Arrive(c) /\ locked = 0
    /\ \E sort \in SortInputs, err \in E :
         LET r == Request("list", 0, [sort |-> sort]) IN
         /\ failed' = [failed EXCEPT ![c] = err]
         /\ IF err THEN Answer(c, r, 500, "SQLITE_ERROR")
            ELSE IF posts = {} THEN Answer(c, r, 200, <<>>)
            ELSE \E scan \in Scans(posts) :
                    Await(c, r, "list_breakdown",
                          OrderByDesc([ i \in DOMAIN scan |-> ListRow(scan[i]) ], sort), 0)
    /\ nreq' = nreq + 1
    /\ UNCHANGED << store, now, locked, crashed >>

\* getReactionsForPosts: the batched breakdown; on error it calls back with {}.
ListBreakdown(c, E) ==
    /\ At(c, "list_breakdown") /\ locked = 0
    /\ \E err \in E :
         LET rows == req[c].rows
             ids  == { rows[i].id : i \in DOMAIN rows }
             map  == IF err THEN <<>> ELSE ReactionsMap(reactions, ids)
         IN  /\ Fail(c, err)
             /\ Answer(c, req[c].request, 200, ListBody(rows, map))
    /\ UNCHANGED << store, now, locked, crashed, nreq >>

\* ----------------------------------------------------- POST /api/posts
NewPost(id, in) ==
    [ id |-> id, text |-> Trim(in.text.v), mood |-> SafeMood(in.mood),
      image |-> ImageOrNull(in.image), likes |-> 0, reposts |-> 0,
      timestamp |-> now ]

CreatePost(c, E) ==
    /\ Arrive(c)
    /\ \E in \in PostInputs, err \in E :
         LET r   == Request("create", 0, in)
             chk == CreateTextCheck(in.text)
             id  == seq.posts + 1
         IN  IF chk \in {"empty", "toolong"}
             THEN /\ Answer(c, r, 400, chk)
                  /\ failed' = [failed EXCEPT ![c] = FALSE]
                  /\ UNCHANGED store
             ELSE IF chk = "throws"
             THEN /\ Answer(c, r, 500, "TypeError")
                  /\ failed' = [failed EXCEPT ![c] = FALSE]
                  /\ UNCHANGED store
             ELSE /\ locked = 0
                  /\ failed' = [failed EXCEPT ![c] = err]
                  /\ IF err
                     THEN /\ Answer(c, r, 500, "SQLITE_ERROR")
                          /\ UNCHANGED store
                     ELSE /\ id <= MaxPosts
                          /\ posts' = posts \cup { NewPost(id, in) }
                          /\ seq' = [seq EXCEPT !.posts = id]
                          /\ Answer(c, r, 200,
                                [ id |-> id, text |-> Trim(in.text.v),
                                  mood |-> SafeMood(in.mood),
                                  image |-> ImageOrNull(in.image), likes |-> 0,
                                  reposts |-> 0, reactions |-> <<>>, reply_count |-> 0 ])
                          /\ UNCHANGED << reactions, replies, reports >>
    /\ nreq' = nreq + 1
    /\ UNCHANGED << now, locked, crashed >>

\* ------------------------------------------------- PUT /api/posts/:id
UpdateRowMutResetLikes(p, in) ==
    [ p EXCEPT !.text = Trim(in.text.v), !.mood = SafeMood(in.mood),
               !.image = ImageOrNull(in.image), !.likes = 0 ]

\* UPDATE posts SET text = ?, mood = ?, image = ? WHERE id = ?
UpdateRow(p, in) ==
    [ p EXCEPT !.text = Trim(in.text.v), !.mood = SafeMood(in.mood),
               !.image = ImageOrNull(in.image) ]

UpdatePost(c, E) ==
    /\ Arrive(c)
    /\ \E id \in PostIds, in \in PostInputs, err \in E :
         LET r   == Request("update", id, in)
             chk == UpdateTextCheck(in.text)
         IN  IF chk # "ok"
             THEN /\ Answer(c, r, 400, chk)
                  /\ failed' = [failed EXCEPT ![c] = FALSE]
                  /\ UNCHANGED posts
             ELSE /\ locked = 0
                  /\ failed' = [failed EXCEPT ![c] = err]
                  /\ IF err
                     THEN Answer(c, r, 500, "SQLITE_ERROR") /\ UNCHANGED posts
                     ELSE IF PostWith(id) = {}
                     THEN Answer(c, r, 404, "Not found") /\ UNCHANGED posts
                     ELSE /\ posts' = { IF p.id = id THEN UpdateRow(p, in) ELSE p : p \in posts }
                          /\ Answer(c, r, 200,
                                [ id |-> id, text |-> Trim(in.text.v),
                                  mood |-> SafeMood(in.mood),
                                  image |-> ImageOrNull(in.image) ])
    /\ nreq' = nreq + 1
    /\ UNCHANGED << reactions, replies, reports, seq, now, locked, crashed >>


\* ---------------------------------------------- DELETE /api/posts/:id
\* A child DELETE has no callback: when it fails, nothing answers the error.
\* The driver then either drops it or raises it where nobody catches it.
ChildStatement(c, r, err, next) ==
    IF err
    THEN \E raised \in BOOLEAN :
            IF raised THEN Crash(c, r) ELSE Await(c, r, next, <<>>, 0) /\ UNCHANGED crashed
    ELSE Await(c, r, next, <<>>, 0) /\ UNCHANGED crashed

\* db.serialize starts: DELETE FROM reactions WHERE post_id = ?
DeletePost(c, E) ==
    /\ Arrive(c) /\ locked = 0
    /\ \E id \in PostIds, err \in E :
         LET r == Request("delete", id, <<>>) IN
         /\ failed' = [failed EXCEPT ![c] = err]
         /\ reactions' = IF err THEN reactions ELSE DeleteWhere(reactions, id)
         /\ ChildStatement(c, r, err, "del_replies")
    /\ locked' = c
    /\ nreq' = nreq + 1
    /\ UNCHANGED << posts, replies, reports, seq, now >>

\* DELETE FROM replies WHERE post_id = ?
DeleteReplies(c, E) ==
    /\ At(c, "del_replies") /\ locked = c
    /\ \E err \in E :
         /\ Fail(c, err)
         /\ replies' = IF err THEN replies ELSE DeleteWhere(replies, req[c].request.id)
         /\ ChildStatement(c, req[c].request, err, "del_reports")
    /\ UNCHANGED << posts, reactions, reports, seq, now, locked, nreq >>

\* DELETE FROM reports WHERE post_id = ?
DeleteReports(c, E) ==
    /\ At(c, "del_reports") /\ locked = c
    /\ \E err \in E :
         /\ Fail(c, err)
         /\ reports' = IF err THEN reports ELSE DeleteWhere(reports, req[c].request.id)
         /\ ChildStatement(c, req[c].request, err, "del_posts")
    /\ UNCHANGED << posts, reactions, replies, seq, now, locked, nreq >>

\* DELETE FROM posts WHERE id = ?, and its callback; db.serialize is over.
DeletePostRow(c, E) ==
    /\ At(c, "del_posts") /\ locked = c
    /\ \E err \in E :
         LET r == req[c].request IN
         /\ Fail(c, err)
         /\ IF err THEN Answer(c, r, 500, "SQLITE_ERROR") /\ UNCHANGED posts
            ELSE IF PostWith(r.id) = {} THEN Answer(c, r, 404, "Not found") /\ UNCHANGED posts
            ELSE posts' = posts \ PostWith(r.id) /\ Answer(c, r, 200, "ok")
    /\ locked' = 0
    /\ UNCHANGED << reactions, replies, reports, seq, now, crashed, nreq >>

\* ------------------------- POST /api/posts/:id/like and .../repost
\* UPDATE posts SET <field> = <field> + 1 WHERE id = ?
Increment(c, E, op, field, next) ==
    /\ Arrive(c) /\ locked = 0
    /\ \E id \in PostIds, err \in E :
         LET r == Request(op, id, <<>>) IN
         /\ failed' = [failed EXCEPT ![c] = err]
         /\ IF err THEN Answer(c, r, 500, "SQLITE_ERROR") /\ UNCHANGED posts
            ELSE IF PostWith(id) = {} THEN Answer(c, r, 404, "Not found") /\ UNCHANGED posts
            ELSE /\ posts' = { IF p.id = id THEN [p EXCEPT ![field] = @ + 1] ELSE p : p \in posts }
                 /\ Await(c, r, next, <<>>,
                          (CHOOSE p \in PostWith(id) : TRUE)[field] + 1)
    /\ nreq' = nreq + 1
    /\ UNCHANGED << reactions, replies, reports, seq, now, locked, crashed >>

\* SELECT <field> FROM posts WHERE id = ?  and res.json({ <field>: row.<field> })
\* db.get hands the callback no row when none matches: row.<field> throws.
SelectCounter(c, E, field, pc) ==
    /\ At(c, pc) /\ locked = 0
    /\ \E err \in E :
         LET r == req[c].request IN
         /\ Fail(c, err)
         /\ IF err THEN Answer(c, r, 500, "SQLITE_ERROR") /\ UNCHANGED crashed
            ELSE IF PostWith(r.id) = {} THEN Crash(c, r)
            ELSE /\ Answer(c, r, 200, (CHOOSE p \in PostWith(r.id) : TRUE)[field])
                 /\ UNCHANGED crashed
    /\ UNCHANGED << store, now, locked, nreq >>

Like(c, E)         == Increment(c, E, "like", "likes", "like_select")
LikeSelect(c, E)   == SelectCounter(c, E, "likes", "like_select")
Repost(c, E)       == Increment(c, E, "repost", "reposts", "repost_select")
RepostSelect(c, E) == SelectCounter(c, E, "reposts", "repost_select")

\* ------------------------------------------- POST /api/posts/:id/react
InsertChildMutChecked(table, row) ==
    IF PostWith(row.post_id) = {} THEN table ELSE table \cup { row }

\* INSERT INTO <child table> (post_id, ...): the FOREIGN KEY clause is not
\* enforced (PRAGMA foreign_keys is never turned on).
InsertChild(table, row) == table \cup { row }

React(c, E) ==
    /\ Arrive(c)
    /\ \E id \in PostIds, type \in TypeInputs, err \in E :
         LET r == Request("react", id, [type |-> type]) IN
         IF type \notin validTypes
         THEN /\ Answer(c, r, 400, "Invalid reaction")
              /\ failed' = [failed EXCEPT ![c] = FALSE]
              /\ UNCHANGED << reactions, seq >>
         ELSE /\ locked = 0
              /\ failed' = [failed EXCEPT ![c] = err]
              /\ IF err THEN Answer(c, r, 500, "SQLITE_ERROR") /\ UNCHANGED << reactions, seq >>
                 ELSE /\ reactions' = InsertChild(reactions,
                            [ id |-> seq.reactions + 1, post_id |-> id, type |-> type,
                              timestamp |-> now ])
                      /\ seq' = [seq EXCEPT !.reactions = @ + 1]
                      /\ Await(c, r, "react_select", <<>>, seq.reactions + 1)
    /\ nreq' = nreq + 1
    /\ UNCHANGED << posts, replies, reports, now, locked, crashed >>

\* SELECT type, COUNT(*) ... WHERE post_id = ? GROUP BY type
ReactSelect(c, E) ==
    /\ At(c, "react_select") /\ locked = 0
    /\ \E err \in E :
         LET r == req[c].request IN
         /\ Fail(c, err)
         /\ IF err THEN Answer(c, r, 500, "SQLITE_ERROR")
            ELSE Answer(c, r, 200, Breakdown(reactions, r.id))
    /\ UNCHANGED << store, now, locked, crashed, nreq >>

\* ------------------------------------------ GET /api/posts/:id/replies
ListReplies(id) ==
    { OrderByTimeAsc(scan) : scan \in Scans(Matching(replies, id)) }

GetReplies(c, E) ==
    /\ Arrive(c) /\ locked = 0
    /\ \E id \in PostIds, err \in E :
         LET r == Request("replies", id, <<>>) IN
         /\ failed' = [failed EXCEPT ![c] = err]
         /\ IF err THEN Answer(c, r, 500, "SQLITE_ERROR")
            ELSE \E rows \in ListReplies(id) : Answer(c, r, 200, rows)
    /\ nreq' = nreq + 1
    /\ UNCHANGED << store, now, locked, crashed >>

\* ------------------------------------------- POST /api/posts/:id/reply
\* !text || !text.trim(): no length limit here.
ReplyTextCheck(text) ==
    IF Falsy(text) THEN "empty"
    ELSE IF text.t # "string" THEN "throws"
    ELSE IF Trim(text.v) = <<>> THEN "empty"
    ELSE "ok"

Reply(c, E) ==
    /\ Arrive(c)
    /\ \E id \in PostIds, text \in ReplyInputs, err \in E :
         LET r   == Request("reply", id, [text |-> text])
             chk == ReplyTextCheck(text)
         IN  IF chk # "ok"
             THEN /\ Answer(c, r, IF chk = "throws" THEN 500 ELSE 400, chk)
                  /\ failed' = [failed EXCEPT ![c] = FALSE]
                  /\ UNCHANGED << replies, seq >>
             ELSE /\ locked = 0
                  /\ failed' = [failed EXCEPT ![c] = err]
                  /\ IF err THEN Answer(c, r, 500, "SQLITE_ERROR") /\ UNCHANGED << replies, seq >>
                     ELSE /\ replies' = InsertChild(replies,
                                [ id |-> seq.replies + 1, post_id |-> id,
                                  text |-> Trim(text.v), timestamp |-> now ])
                          /\ seq' = [seq EXCEPT !.replies = @ + 1]
                          /\ Answer(c, r, 200, [ id |-> seq.replies + 1, post_id |-> id,
                                                 text |-> Trim(text.v) ])
    /\ nreq' = nreq + 1
    /\ UNCHANGED << posts, reactions, reports, now, locked, crashed >>

\* ------------------------------------------ POST /api/posts/:id/report
Report(c, E) ==
    /\ Arrive(c)
    /\ \E id \in PostIds, reason \in ReasonInputs, err \in E :
         LET r == Request("report", id, [reason |-> reason]) IN
         IF reason \notin validReasons
         THEN /\ Answer(c, r, 400, "Invalid reason")
              /\ failed' = [failed EXCEPT ![c] = FALSE]
              /\ UNCHANGED << reports, seq >>
         ELSE /\ locked = 0
              /\ failed' = [failed EXCEPT ![c] = err]
              /\ IF err THEN Answer(c, r, 500, "SQLITE_ERROR") /\ UNCHANGED << reports, seq >>
                 ELSE /\ reports' = InsertChild(reports,
                            [ id |-> seq.reports + 1, post_id |-> id, reason |-> reason,
                              timestamp |-> now ])
                      /\ seq' = [seq EXCEPT !.reports = @ + 1]
                      /\ Answer(c, r, 200, [ id |-> seq.reports + 1, post_id |-> id,
                                             reason |-> reason ])
    /\ nreq' = nreq + 1
    /\ UNCHANGED << posts, reactions, replies, now, locked, crashed >>

\* ----------------------------------------------------------- the clock
Tick ==
    /\ ~crashed /\ now < MaxTime
    /\ now' = now + 1
    /\ out' = NoOut
    /\ UNCHANGED << store, locked, req, crashed, failed, nreq >>

\* --------------------------------------------------------------- Next
Handlers(c, E) ==
    \/ ListPosts(c, E)   \/ ListBreakdown(c, E)
    \/ CreatePost(c, E)  \/ UpdatePost(c, E)
    \/ DeletePost(c, E)  \/ DeleteReplies(c, E)
    \/ DeleteReports(c, E) \/ DeletePostRow(c, E)
    \/ Like(c, E)        \/ LikeSelect(c, E)
    \/ Repost(c, E)      \/ RepostSelect(c, E)
    \/ React(c, E)       \/ ReactSelect(c, E)
    \/ GetReplies(c, E)  \/ Reply(c, E)  \/ Report(c, E)

\* Every statement succeeds.
Next == Tick \/ \E c \in Clients : Handlers(c, {FALSE})

\* Any statement may fail (I/O error, SQLITE_BUSY, ...).
NextFaulty == Tick \/ \E c \in Clients : Handlers(c, BOOLEAN)

Spec == Init /\ [][Next]_vars

SpecFaulty == Init /\ [][NextFaulty]_vars


\* ------------------------------------------------- reading one step
\* The step received a request for op and answered it at once.
Immediate(op) == nreq' = nreq + 1 /\ out'.request.op = op

\* The step received a request of c and left its handler waiting at pc.
Started(c, pc) == nreq' = nreq + 1 /\ req[c].pc = "idle" /\ req'[c].pc = pc

\* The step ran the statement the handler of c was waiting for at pc.
Resumed(c, pc) == req[c].pc = pc /\ req'[c].pc # pc

NoRowsFor(id) ==
    /\ PostWith(id) = {}
    /\ Matching(reactions, id) = {}
    /\ Matching(replies, id) = {}
    /\ Matching(reports, id) = {}

\* C1: in the state in which DELETE /api/posts/:id has answered 200, no post
\* has that id, no reaction, reply or report has it as post_id, and the
\* replies query for it yields the empty sequence only.
C1_DeleteCascades ==
    (out.request.op = "delete" /\ out.status = 200) =>
        /\ NoRowsFor(out.request.id)
        /\ ListReplies(out.request.id) = { <<>> }

\* A delete of post 1 has answered 200 after one more reaction was inserted
\* on it: both its reactions, its reply and its report are gone.
C1_Witness ==
    /\ out.request.op = "delete" /\ out.status = 200 /\ out.request.id = 1
    /\ seq = [posts |-> 2, reactions |-> 2, replies |-> 1, reports |-> 1]
    /\ reactions = {} /\ replies = {} /\ reports = {}
    /\ \E p \in posts : p.id = 2

\* C2: in every list response, the per-type counts of each post's reactions
\* breakdown add up to its reaction_count.
C2_BreakdownSumsToCount ==
    (out.request.op = "list" /\ out.status = 200) =>
        \A i \in DOMAIN out.body :
            SumCounts(out.body[i].reactions) = out.body[i].reaction_count

CounterOf(id, field) == (CHOOSE p \in PostWith(id) : TRUE)[field]

CounterStep(c, op, field, pc) ==
    /\ \A id \in PostIds :
         (Started(c, pc) /\ req'[c].request.id = id) =>
            /\ PostWith(id) # {}
            /\ CounterOf(id, field)' = CounterOf(id, field) + 1
    /\ (Resumed(c, pc) /\ out'.status = 200) => out'.body = req[c].mine
    /\ (Immediate(op) /\ out'.client = c) =>
            /\ out'.status = 404
            /\ PostWith(out'.request.id) = {}
            /\ posts' = posts

\* C3: a like (repost) on an existing post adds exactly 1 to its counter and
\* its 200 response carries the value the counter had right after that
\* request's own increment; on an id without a row it answers 404 and
\* changes nothing.
C3_CounterAnswersOwnIncrement ==
    [][ \A c \in Clients :
          /\ CounterStep(c, "like", "likes", "like_select")
          /\ CounterStep(c, "repost", "reposts", "repost_select") ]_vars

StoreInClosedSets ==
    /\ \A p \in posts : p.mood \in validMoods
    /\ \A r \in reactions : r.type \in validTypes
    /\ \A r \in reports : r.reason \in validReasons

\* C4: moods, reaction types and report reasons in the store are always of
\* their closed sets.  A create or update is never refused for its mood, and
\* one that succeeds with a mood outside the set stores none; a react with a
\* type outside the set, or a report with a reason outside the set, answers
\* 400 and leaves the store as it was.
C4_ClosedSets ==
    /\ StoreInClosedSets
    /\ [][ /\ StoreInClosedSets'
           /\ \A op \in {"create", "update"} :
                Immediate(op) =>
                  LET in == out'.request.args IN
                  /\ out'.status = 400 =>
                        (in.text.t # "string" \/ in.text.v \notin { TextShort, Text280 })
                  /\ (out'.status = 200 /\ in.mood \notin validMoods) =>
                        \E p \in posts' : p.id = out'.body.id /\ p.mood = "none"
                  /\ (out'.status = 200 /\ in.mood \in validMoods) =>
                        \E p \in posts' : p.id = out'.body.id /\ p.mood = in.mood
           /\ \A c \in Clients :
                (nreq' = nreq + 1 /\ req'[c].request.op = "react" /\ req'[c].pc = "react_select")
                    => req'[c].request.args.type \in validTypes
           /\ (Immediate("react") /\ out'.request.args.type \notin validTypes) =>
                (out'.status = 400 /\ store' = store)
           /\ (Immediate("report") /\ out'.request.args.reason \notin validReasons) =>
                (out'.status = 400 /\ store' = store)
           /\ (Immediate("report") /\ out'.request.args.reason \in validReasons) =>
                out'.status = 200
         ]_vars

\* An update with a missing mood has overwritten the mood love of post 1
\* with none, and a react with type wow was refused before.
C4_Witness ==
    /\ out.request.op = "update" /\ out.status = 200 /\ out.request.id = 1
    /\ out.request.args.mood = "<undefined>"
    /\ \E p \in posts : p.id = 1 /\ p.mood = "none"
    /\ nreq = 2 /\ reactions = UsedStore.reactions


StoredTextOK ==
    \A p \in posts :
        /\ p.text # <<>>
        /\ Len(p.text) <= MAX_LENGTH
        /\ p.text[1] \notin WhiteSpace
        /\ p.text[Len(p.text)] \notin WhiteSpace

\* C5: every stored post text is non-empty, has no whitespace at its ends and
\* is at most 280 long.  A create or update whose text trims to exactly 280
\* characters is accepted and stored whole; one whose text has 281 characters,
\* or is empty or blank, answers 400 and leaves the store as it was.
C5_TextBounds ==
    /\ StoredTextOK
    /\ [][ /\ StoredTextOK'
           /\ \A op \in {"create", "update"} :
                Immediate(op) =>
                  LET in == out'.request.args IN
                  /\ in.text = Str(Text280) =>
                        /\ out'.status \in (IF op = "create" THEN {200} ELSE {200, 404})
                        /\ out'.status = 200 =>
                              \E p \in posts' : p.id = out'.body.id /\ p.text = A(MAX_LENGTH)
                  /\ in.text \in { Str(Text281), Str(TextBlank), Str(<<>>) } =>
                        (out'.status = 400 /\ store' = store)
         ]_vars

\* An update has stored a text of exactly 280 characters in post 2.
C5_Witness ==
    /\ out.request.op = "update" /\ out.status = 200 /\ out.request.id = 2
    /\ out.request.args.text = Str(Text280)
    /\ \E p \in posts : p.id = 2 /\ Len(p.text) = MAX_LENGTH /\ p.reposts = 2

\* C6: an update that answers 200 changes nothing but text, mood and image
\* of the post it names; one that names no row answers 404; every update
\* that does not answer 200 leaves the store as it was.
C6_UpdateFrame ==
    [][ Immediate("update") =>
          LET id == out'.request.id IN
          /\ out'.status = 200 =>
                /\ PostWith(id) # {}
                /\ { p.id : p \in posts' } = { p.id : p \in posts }
                /\ Cardinality(posts') = Cardinality(posts)
                /\ \A p \in posts :
                     IF p.id = id
                     THEN \E q \in posts' :
                            /\ q.id = id /\ q.likes = p.likes /\ q.reposts = p.reposts
                            /\ q.timestamp = p.timestamp
                     ELSE p \in posts'
                /\ << reactions, replies, reports, seq >>' = << reactions, replies, reports, seq >>
          /\ out'.status = 404 => PostWith(id) = {}
          /\ (out'.status # 400 /\ PostWith(id) = {}) => out'.status = 404
          /\ out'.status # 200 => store' = store
      ]_vars

\* An update has rewritten text, mood and image of post 1, which still has
\* its 2 likes, its timestamp 0 and its reaction, reply and report.
C6_Witness ==
    /\ out.request.op = "update" /\ out.status = 200 /\ out.request.id = 1
    /\ \E p \in posts : /\ p.id = 1 /\ p.likes = 2 /\ p.timestamp = 0
                        /\ Len(p.text) = MAX_LENGTH /\ p.image = Null
    /\ reactions # {} /\ replies # {} /\ reports # {}

SortKey(row, sort) ==
    IF sort = "top" THEN row.reaction_count + row.likes + row.reposts
    ELSE row.timestamp

\* C7: the list query yields every stored post once, each with the number of
\* reaction rows that reference it as reaction_count, in non-increasing order
\* of reaction_count + likes + reposts under sort=top and of timestamp
\* otherwise; the response lists the posts in that order.
C7_ListOrder ==
    [][ \A c \in Clients :
          /\ Started(c, "list_breakdown") =>
               LET rows == req'[c].rows
                   sort == req'[c].request.args.sort
               IN  /\ Len(rows) = Cardinality(posts)
                   /\ { rows[i].id : i \in DOMAIN rows } = { p.id : p \in posts }
                   /\ \A i \in DOMAIN rows :
                        \E p \in posts :
                          /\ p.id = rows[i].id /\ p.likes = rows[i].likes
                          /\ p.reposts = rows[i].reposts
                          /\ p.timestamp = rows[i].timestamp
                          /\ rows[i].reaction_count =
                               Cardinality({ r \in reactions : r.post_id = p.id })
                   /\ \A i, j \in DOMAIN rows :
                        i < j => SortKey(rows[i], sort) >= SortKey(rows[j], sort)
          /\ (Resumed(c, "list_breakdown") /\ out'.status = 200) =>
               LET rows == req[c].rows
                   sort == req[c].request.args.sort
               IN  /\ Len(out'.body) = Len(rows)
                   /\ \A i \in DOMAIN rows :
                        /\ out'.body[i].id = rows[i].id
                        /\ SortKey(out'.body[i], sort) = SortKey(rows[i], sort)
          /\ (Immediate("list") /\ out'.client = c) => (posts = {} /\ out'.body = <<>>)
      ]_vars

\* A sort=top response lists post 1 (1 reaction + 2 likes) before post 2
\* (2 reposts), the reverse of their timestamps, after one more request.
C7_Witness ==
    /\ out.request.op = "list" /\ out.status = 200
    /\ out.request.args.sort = "top" /\ nreq = 2
    /\ Len(out.body) = 2 /\ out.body[1].id = 1 /\ out.body[2].id = 2
    /\ out.body[1].timestamp < out.body[2].timestamp
    /\ out.body[1].reaction_count = 1 /\ out.body[2].reaction_count = 0

\* C8: a request of which some statement failed is answered with status 500.
C8_FailureAnswers500 ==
    (out.client # 0 /\ failed[out.client]) => out.status = 500

CountOfType(id, type) ==
    Cardinality({ r \in reactions : r.post_id = id /\ r.type = type })

\* What a valid react, reply or report does on a post id that has no row.
ChildOnAbsentPost(c) ==
    /\ (Started(c, "react_select") /\ PostWith(req'[c].request.id) = {}) =>
          /\ posts' = posts
          /\ \E r \in reactions' :
                /\ reactions' = reactions \cup { r } /\ r \notin reactions
                /\ r.id = req'[c].mine
                /\ r.post_id = req'[c].request.id
                /\ r.type = req'[c].request.args.type
    /\ (Immediate("react") /\ out'.client = c) => out'.status = 400
    /\ (Immediate("reply") /\ out'.client = c /\ out'.status = 200
            /\ PostWith(out'.request.id) = {}) =>
          /\ posts' = posts
          /\ \E r \in replies' :
                /\ replies' = replies \cup { r } /\ r \notin replies
                /\ r.post_id = out'.request.id
    /\ (Immediate("reply") /\ out'.client = c
            /\ out'.request.args.text = Str(<<" ", "h", "i", " ">>)) => out'.status = 200
    /\ (Immediate("report") /\ out'.client = c /\ out'.status = 200
            /\ PostWith(out'.request.id) = {}) =>
          /\ posts' = posts
          /\ \E r \in reports' :
                /\ reports' = reports \cup { r } /\ r \notin reports
                /\ r.post_id = out'.request.id
    /\ (Immediate("report") /\ out'.client = c
            /\ out'.request.args.reason \in validReasons) => out'.status = 200

\* The react response on a post id without a row: 200 with the count, per
\* type, of the reaction rows that carry the id when the SELECT runs.
ReactAnswerOnAbsentPost(c) ==
    (Resumed(c, "react_select") /\ ~req[c].found) =>
        /\ out'.client = c /\ out'.status = 200
        /\ \A t \in validTypes :
             IF t \in DOMAIN out'.body
             THEN out'.body[t] = CountOfType(req[c].request.id, t) /\ out'.body[t] > 0
             ELSE CountOfType(req[c].request.id, t) = 0
        /\ (\E r \in reactions : r.id = req[c].mine) =>
             req[c].request.args.type \in DOMAIN out'.body

\* C9 as stated: a valid react, reply or report on a post id without a row is
\* accepted with 200, inserts its row and leaves posts alone, and the react
\* response counts the reaction rows of that id, among them the one the
\* request has just inserted.
C9_AsStated ==
    [][ \A c \in Clients :
          /\ ChildOnAbsentPost(c)
          /\ ReactAnswerOnAbsentPost(c)
          /\ (Resumed(c, "react_select") /\ ~req[c].found) =>
                req[c].request.args.type \in DOMAIN out'.body
      ]_vars

\* C9 as amended: the same, but the react response counts the reaction rows
\* that carry the id when the follow-up SELECT runs: the row just inserted is
\* among them unless a delete of the same id has removed it in between.
C9_ChildRowsOnAbsentPost ==
    [][ \A c \in Clients : ChildOnAbsentPost(c) /\ ReactAnswerOnAbsentPost(c) ]_vars

\* A react on post id 1 of an empty store has answered 200 with love: 1;
\* there is still no post.
C9_Witness ==
    /\ out.request.op = "react" /\ out.status = 200 /\ out.request.id = 1
    /\ posts = {} /\ seq.posts = 0
    /\ DOMAIN out.body = {"love"} /\ out.body["love"] = 1
    /\ \E r \in reactions : r.post_id = 1

\* C10: the statement a like or repost handler waits for ends the request
\* with one response, of status 200, 404 or 500.
C10_CounterAlwaysAnswers ==
    [][ \A c \in Clients : \A pc \in {"like_select", "repost_select"} :
          Resumed(c, pc) =>
            (~crashed' /\ out'.client = c /\ out'.status \in {200, 404, 500}) ]_vars

====
